---- MODULE Spec2Model ----
(***************************************************************************)
(* Span -> SourceRegion conversion of                                      *)
(* kani-compiler/src/codegen_cprover_gotoc/codegen/source_region.rs.       *)
(*                                                                         *)
(* One behaviour is one call of make_source_region: Init draws the         *)
(* arguments (source file, span, build configuration), the actions are the *)
(* stages of the call in program order.                                    *)
(*                                                                         *)
(* Integer widths.  BytePos / RelativeBytePos / the SourceRegion fields    *)
(* are u32 and line/column intermediates are usize in the source.  TLC's   *)
(* integers are 32 bit, so the model keeps the two widths but scales them: *)
(* a u32 has WordBits bits and a usize 2 * WordBits bits.  Every wrap,     *)
(* truncation and the "high bit" are computed from WordBits.               *)
(*                                                                         *)
(* Arithmetic inside rustc_span (BytePos +/-, doctest_offset_line) is      *)
(* modelled as wrapping: that crate is the toolchain's prebuilt library,   *)
(* compiled without overflow checks.                                       *)
(***************************************************************************)
EXTENDS Integers, Sequences, FiniteSets

\* ------------------------------------------------------------------ bounds
\* Number of bits of the model's u32 (the source's is 32).
WordBits == 4
\* Longest explicit tail of a file's content.
MaxCore == 2
\* Largest magnitude of a doctest line offset.
MaxOffset == 2
\* The non-zero start_pos a file may have inside the source map.
Base == 2

U32 == 2 ^ WordBits
USIZE == 2 ^ (2 * WordBits)
\* 1 << 31 in the source: the top bit of a u32.
HighBit == 2 ^ (WordBits - 1)

\* ----------------------------------------------------------------- options
None == <<>>
Some(x) == <<x>>
IsSome(o) == o # None
Unwrap(o) == o[1]

\* ------------------------------------------------------------- source text
\* Bytes that matter to the conversion: the two braces, the line terminator
\* and any other byte.
Bytes == {"{", "}", "\n", "x"}

Cores == UNION {[1..k -> Bytes] : k \in 0..MaxCore}
\* A file's content is `pad` bytes "x" followed by the bytes of `core`; a
\* large pad puts the core at columns next to the high bit.
Pads == {0, HighBit - 2}

SourceLen(src) == src.pad + Len(src.core)

\* src.as_bytes().get(i)
BytesGet(src, i) ==
    IF i < 0 \/ i >= SourceLen(src) THEN None
    ELSE IF i < src.pad THEN Some("x")
    ELSE Some(src.core[i - src.pad + 1])

\* src.as_bytes()[i]: "panic" stands for the index-out-of-bounds panic.
BytesIndex(src, i) ==
    IF IsSome(BytesGet(src, i)) THEN Unwrap(BytesGet(src, i)) ELSE "panic"

\* SourceFile::lines(): offset 0, then the offset after every "\n"; a last
\* line start equal to the file's length is dropped.
RECURSIVE LineStartsFrom(_, _)
LineStartsFrom(src, i) ==
    IF i > Len(src.core) THEN <<>>
    ELSE IF src.core[i] = "\n"
         THEN <<src.pad + i>> \o LineStartsFrom(src, i + 1)
         ELSE LineStartsFrom(src, i + 1)

Lines(src) ==
    LET all == <<0>> \o LineStartsFrom(src, 1)
    IN  IF all[Len(all)] = SourceLen(src) THEN SubSeq(all, 1, Len(all) - 1)
        ELSE all

\* ------------------------------------------------------------------- spans
\* Span::new orders its bounds.
SpanNew(lo, hi) == IF lo <= hi THEN [lo |-> lo, hi |-> hi] ELSE [lo |-> hi, hi |-> lo]
SpanIsEmpty(span) == span.lo = span.hi
WithHi(span, hi) == SpanNew(span.lo, hi)
WithLo(span, lo) == SpanNew(lo, span.hi)
\* BytePos + BytePos, BytePos - BytePos on u32.
BytePosAdd(a, b) == (a + b) % U32
BytePosSub(a, b) == (a - b) % U32

\* SourceFile::relative_position
RelativePosition(file, pos) == BytePosSub(pos, file.start_pos)

VARIABLES
    debug_assertions,   \* cfg(debug_assertions) of the build
    file,               \* the SourceFile: start_pos, src, name
    span,               \* the Span argument
    pc,                 \* position inside make_source_region
    nonempty,           \* Option: result of ensure_non_empty_span
    start,              \* Option: line_and_byte_column(lo)
    end,                \* Option: line_and_byte_column(hi)
    lines,              \* <<start_line, end_line>> after the doctest offset
    diagnostic,         \* the debug! record emitted by check_source_region
    result,             \* Option<SourceRegion> returned by the call
    trace               \* stages executed so far, in order

vars == <<debug_assertions, file, span, pc, nonempty, start, end, lines,
          diagnostic, result, trace>>

\* ------------------------------------------------- ensure_non_empty_span
\* SourceMap::span_to_source hands the callback the file's text and the
\* span's bounds as indices into it; it fails when the bounds are not
\* ordered indices into the text.
SpanToSourceOk(f, sp) ==
    LET start_index == BytePosSub(sp.lo, f.start_pos)
        end_index == BytePosSub(sp.hi, f.start_pos)
    IN  ~(start_index > end_index \/ end_index > SourceLen(f.src))

\* Faulty variants of the closure of lines 36-48.
\* Grows forward by two bytes.
EnlargeByBrace_two_bytes(f, sp) ==
    LET start_index == BytePosSub(sp.lo, f.start_pos)
        end_index == BytePosSub(sp.hi, f.start_pos)
    IN  IF BytesGet(f.src, end_index) = Some("{")
        THEN Some(WithHi(sp, BytePosAdd(sp.hi, 2)))
        ELSE IF start_index > 0 /\ BytesIndex(f.src, start_index - 1) = "}"
        THEN Some(WithLo(sp, BytePosSub(sp.lo, 1)))
        ELSE None

\* Forgets the preceding "}".
EnlargeByBrace_forward_only(f, sp) ==
    LET end_index == BytePosSub(sp.hi, f.start_pos)
    IN  IF BytesGet(f.src, end_index) = Some("{")
        THEN Some(WithHi(sp, BytePosAdd(sp.hi, 1)))
        ELSE None

\* Keeps the empty span when no brace is adjacent.
EnlargeByBrace_keep_empty(f, sp) ==
    LET start_index == BytePosSub(sp.lo, f.start_pos)
        end_index == BytePosSub(sp.hi, f.start_pos)
    IN  IF BytesGet(f.src, end_index) = Some("{")
        THEN Some(WithHi(sp, BytePosAdd(sp.hi, 1)))
        ELSE IF start_index > 0 /\ BytesIndex(f.src, start_index - 1) = "}"
        THEN Some(WithLo(sp, BytePosSub(sp.lo, 1)))
        ELSE Some(sp)

\* Looks at the preceding "}" before the following "{".
EnlargeByBrace_close_first(f, sp) ==
    LET start_index == BytePosSub(sp.lo, f.start_pos)
        end_index == BytePosSub(sp.hi, f.start_pos)
    IN  IF start_index > 0 /\ BytesIndex(f.src, start_index - 1) = "}"
        THEN Some(WithLo(sp, BytePosSub(sp.lo, 1)))
        ELSE IF BytesGet(f.src, end_index) = Some("{")
        THEN Some(WithHi(sp, BytePosAdd(sp.hi, 1)))
        ELSE None

\* The closure of lines 36-48.
EnlargeByBrace(f, sp) ==
    LET start_index == BytePosSub(sp.lo, f.start_pos)
        end_index == BytePosSub(sp.hi, f.start_pos)
    IN  IF BytesGet(f.src, end_index) = Some("{")
        THEN Some(WithHi(sp, BytePosAdd(sp.hi, 1)))
        ELSE IF start_index > 0 /\ BytesIndex(f.src, start_index - 1) = "}"
        THEN Some(WithLo(sp, BytePosSub(sp.lo, 1)))
        ELSE None

\* Faulty variant: passes every span through.
ensure_non_empty_span_unchecked(f, sp) == Some(sp)

ensure_non_empty_span(f, sp) ==
    IF ~SpanIsEmpty(sp) THEN Some(sp)
    ELSE IF SpanToSourceOk(f, sp) THEN EnlargeByBrace(f, sp)
    ELSE None

\* The slice index of line 43 panics when it is out of bounds.
ensure_non_empty_span_panics(f, sp) ==
    LET start_index == BytePosSub(sp.lo, f.start_pos)
        end_index == BytePosSub(sp.hi, f.start_pos)
    IN  /\ SpanIsEmpty(sp)
        /\ SpanToSourceOk(f, sp)
        /\ BytesGet(f.src, end_index) # Some("{")
        /\ start_index > 0
        /\ BytesIndex(f.src, start_index - 1) = "panic"

\* --------------------------------------------------- line_and_byte_column
\* slice::partition_point(|x| x <= pos): the length of the prefix of the
\* table on which the predicate holds.
PartitionPoint(table, pos) ==
    CHOOSE n \in 0..Len(table) :
        /\ \A i \in 1..n : table[i] <= pos
        /\ n < Len(table) => ~(table[n + 1] <= pos)

\* Faulty variant: partitions by x < pos.
lookup_line_strict(f, rpos) ==
    LET table == Lines(f.src)
        n == Cardinality({i \in 1..Len(table) : table[i] < rpos})
    IN  IF n = 0 THEN None ELSE Some(n - 1)

\* SourceFile::lookup_line: partition_point(..).checked_sub(1), the 0-based
\* index of the line.
lookup_line(f, rpos) ==
    LET n == PartitionPoint(Lines(f.src), rpos)
    IN  IF n = 0 THEN None ELSE Some(n - 1)

\* Faulty variant: the column stays 0-based.
line_and_byte_column_zero_based(f, pos) ==
    LET rpos == RelativePosition(f, pos)
        line_index == lookup_line(f, rpos)
    IN  IF line_index = None THEN None
        ELSE LET line_start == Lines(f.src)[Unwrap(line_index) + 1]
             IN  Some(<<Unwrap(line_index) + 1, BytePosSub(rpos, line_start)>>)

\* The closure of lines 103-109: the 1-based <<line, byte column>> of pos.
line_and_byte_column(f, pos) ==
    LET rpos == RelativePosition(f, pos)
        line_index == lookup_line(f, rpos)
    IN  IF line_index = None THEN None
        ELSE LET line_start == Lines(f.src)[Unwrap(line_index) + 1]
             IN  Some(<<Unwrap(line_index) + 1, BytePosSub(rpos, line_start) + 1>>)

\* ---------------------------------------------------- doctest_offset_line
\* SourceMap::doctest_offset_line: a FileName::DocTest carries a signed
\* line offset, every other file name leaves the line alone.  usize
\* arithmetic.
doctest_offset_line(name, orig) ==
    IF name.doctest
    THEN IF name.offset < 0
         THEN (orig - (-name.offset)) % USIZE
         ELSE (orig + name.offset) % USIZE
    ELSE orig

\* ---------------------------------------------------- check_source_region
\* `as u32`
AsU32(x) == x % U32

SourceRegion(start_line, start_col, end_line, end_col) ==
    [start_line |-> AsU32(start_line), start_col |-> AsU32(start_col),
     end_line |-> AsU32(end_line), end_col |-> AsU32(end_col)]

\* Faulty variant: only the columns are tested.
all_nonzero_columns_only(r) ==
    \A x \in {r.start_col, r.end_col} : x # 0

all_nonzero(r) ==
    \A x \in {r.start_line, r.start_col, r.end_line, r.end_col} : x # 0

\* (end_col & (1 << 31)) == 0
end_col_has_high_bit_unset(r) == (r.end_col \div HighBit) % 2 = 0

\* Tuple comparison (start_line, start_col) <= (end_line, end_col).
PairLe(a, b) == a[1] < b[1] \/ (a[1] = b[1] /\ a[2] <= b[2])

is_ordered(r) == PairLe(<<r.start_line, r.start_col>>, <<r.end_line, r.end_col>>)

RegionOk(r) == all_nonzero(r) /\ end_col_has_high_bit_unset(r) /\ is_ordered(r)

check_source_region(r) == IF RegionOk(r) THEN Some(r) ELSE None

\* Faulty variant: assert! in place of debug_assert!.
CheckPanics_always(dbg, r) == ~RegionOk(r)

\* debug_assert!(false, ..) on the rejecting branch.
CheckPanics(dbg, r) == dbg /\ ~RegionOk(r)

\* --------------------------------------------------------------- arguments
FileNames ==
    {[doctest |-> FALSE, offset |-> 0]}
    \cup {[doctest |-> TRUE, offset |-> k] : k \in (-MaxOffset)..MaxOffset}

Sources == {[pad |-> p, core |-> c] : p \in Pads, c \in Cores}

\* Files the source map can hold: the whole file lies in the u32 range.
Files ==
    {f \in [start_pos : {0, Base}, src : Sources, name : FileNames] :
        f.start_pos + SourceLen(f.src) < U32}

\* Byte positions a span of the file may use: the file's start, every
\* offset of the core, its end and one position past the longest core.
Positions(f) ==
    {p \in {f.start_pos} \cup
           {f.start_pos + f.src.pad + i : i \in 0..(MaxCore + 1)} : p < U32}

Spans(f) == {SpanNew(lo, hi) : lo \in Positions(f), hi \in Positions(f)}

Init ==
    /\ debug_assertions \in BOOLEAN
    /\ file \in Files
    /\ span \in Spans(file)
    /\ pc = "ensure_non_empty_span"
    /\ nonempty = None
    /\ start = None
    /\ end = None
    /\ lines = <<0, 0>>
    /\ diagnostic = FALSE
    /\ result = None
    /\ trace = <<>>

\* ---------------------------------------------------------------- actions
\* Line 98.
EnsureNonEmptySpan ==
    /\ pc = "ensure_non_empty_span"
    /\ trace' = Append(trace, "ensure_non_empty_span")
    /\ IF ensure_non_empty_span_panics(file, span)
       THEN /\ pc' = "panicked"
            /\ UNCHANGED nonempty
       ELSE /\ nonempty' = ensure_non_empty_span(file, span)
            /\ pc' = IF IsSome(nonempty') THEN "resolve_lo" ELSE "returned"
    /\ UNCHANGED <<debug_assertions, file, span, start, end, lines, diagnostic, result>>

\* Line 110.
ResolveLo ==
    /\ pc = "resolve_lo"
    /\ trace' = Append(trace, "resolve_lo")
    /\ start' = line_and_byte_column(file, Unwrap(nonempty).lo)
    /\ pc' = IF IsSome(start') THEN "resolve_hi" ELSE "returned"
    /\ UNCHANGED <<debug_assertions, file, span, nonempty, end, lines, diagnostic, result>>

\* Line 111.
ResolveHi ==
    /\ pc = "resolve_hi"
    /\ trace' = Append(trace, "resolve_hi")
    /\ end' = line_and_byte_column(file, Unwrap(nonempty).hi)
    /\ pc' = IF IsSome(end') THEN "doctest_offset" ELSE "returned"
    /\ UNCHANGED <<debug_assertions, file, span, nonempty, start, lines, diagnostic, result>>

\* Faulty variant: the start line's adjustment is used for both lines.
AdjustedLines_start_for_both(name, s, e) ==
    <<doctest_offset_line(name, s[1]), doctest_offset_line(name, s[1])>>

\* Lines 114-115.
AdjustedLines(name, s, e) ==
    <<doctest_offset_line(name, s[1]), doctest_offset_line(name, e[1])>>

DoctestOffset ==
    /\ pc = "doctest_offset"
    /\ trace' = Append(trace, "doctest_offset")
    /\ lines' = AdjustedLines(file.name, Unwrap(start), Unwrap(end))
    /\ pc' = "check_source_region"
    /\ UNCHANGED <<debug_assertions, file, span, nonempty, start, end, diagnostic, result>>

\* Lines 116-121: the rectangle handed to check_source_region.
Rectangle(ls, s, e) == SourceRegion(ls[1], s[2], ls[2], e[2])

\* Lines 116-121 with check_source_region, lines 56-81.
CheckSourceRegion ==
    /\ pc = "check_source_region"
    /\ trace' = Append(trace, "check_source_region")
    /\ LET r == Rectangle(lines, Unwrap(start), Unwrap(end))
       IN  /\ result' = check_source_region(r)
           /\ diagnostic' = ~IsSome(result')
           /\ pc' = IF CheckPanics(debug_assertions, r) THEN "panicked" ELSE "returned"
    /\ UNCHANGED <<debug_assertions, file, span, nonempty, start, end, lines>>

Next ==
    \/ EnsureNonEmptySpan
    \/ ResolveLo
    \/ ResolveHi
    \/ DoctestOffset
    \/ CheckSourceRegion

Spec == Init /\ [][Next]_vars

\* ================================================================ claims
\* Vocabulary of the claims, written from their wording and not from the
\* operators above.
Done == pc \in {"returned", "panicked"}
Ran(stage) == \E i \in 1..Len(trace) : trace[i] = stage
Emitted == pc = "returned" /\ IsSome(result)
Region == Unwrap(result)

\* File-relative offset of an absolute position of the file.
Rel(pos) == pos - file.start_pos
FileLen == file.src.pad + Len(file.src.core)
Table == Lines(file.src)
\* The byte at a file-relative offset is b.
ByteIs(off, b) ==
    /\ 0 <= off
    /\ off < FileLen
    /\ b = (IF off < file.src.pad THEN "x" ELSE file.src.core[off - file.src.pad + 1])

\* Some line start of the table does not exceed the offset.
HasLine(off) == \E i \in 1..Len(Table) : Table[i] <= off
\* 1-based index of the greatest line start not exceeding the offset, and
\* the offset's distance from it plus 1.
LineOf(off) ==
    CHOOSE l \in 1..Len(Table) :
        /\ Table[l] <= off
        /\ \A j \in 1..Len(Table) : Table[j] <= off => Table[j] <= Table[l]
ColOf(off) == off - Table[LineOf(off)] + 1

\* The signed doctest offset of the file (0 for a file that is no doctest).
Shift == IF file.name.doctest THEN file.name.offset ELSE 0
\* A line after the doctest offset, as the u32 field holds it.
Shifted(l) == (l + Shift) % U32

\* The three structural invariants of an emitted region.
FieldsNonzero(r) ==
    r.start_line >= 1 /\ r.start_col >= 1 /\ r.end_line >= 1 /\ r.end_col >= 1
HighBitClear(r) == r.end_col < HighBit
WeaklyOrdered(r) ==
    \/ r.start_line < r.end_line
    \/ r.start_line = r.end_line /\ r.start_col <= r.end_col
StrictlyOrdered(r) ==
    \/ r.start_line < r.end_line
    \/ r.start_line = r.end_line /\ r.start_col < r.end_col
Valid(r) == FieldsNonzero(r) /\ HighBitClear(r) /\ WeaklyOrdered(r)

\* The rectangle the call hands to validation, once both endpoints are
\* resolved and the lines adjusted.
Checked == Ran("check_source_region")
Handed ==
    [start_line |-> lines[1] % U32, start_col |-> Unwrap(start)[2] % U32,
     end_line |-> lines[2] % U32, end_col |-> Unwrap(end)[2] % U32]

\* C1: every region make_source_region returns has all four fields >= 1,
\* bit 31 of end_col clear and (start_line, start_col) <= (end_line,
\* end_col); a rectangle with start_line = 0 is never returned.
C1_EmittedRegionIsValid ==
    /\ IsSome(result) => Valid(Region)
    /\ (Checked /\ Handed.start_line = 0) => result = None

C1_Witness ==
    /\ Emitted
    /\ file.name.doctest /\ file.name.offset < 0
    /\ Region.end_col = HighBit - 1

\* A rectangle with start_line = 0 reached validation and was dropped.
C1_RejectedWitness == Checked /\ Handed.start_line = 0 /\ result = None

\* ---------------------------------------------------------------- C2
\* The span argument is non-empty and lies inside the file's byte range.
NonEmptyInside ==
    /\ span.lo < span.hi
    /\ file.start_pos <= span.lo
    /\ span.hi <= file.start_pos + FileLen

\* The region whose endpoints are recomputed from the line-start table.
Recomputed ==
    [start_line |-> LineOf(Rel(span.lo)), start_col |-> ColOf(Rel(span.lo)),
     end_line |-> LineOf(Rel(span.hi)), end_col |-> ColOf(Rel(span.hi))]

\* C2 as stated: every non-empty span inside the file's byte range is
\* converted, and to exactly the line/column pairs recomputed from the
\* line-start table.
C2_Original ==
    (Done /\ NonEmptyInside) => (Emitted /\ Region = Recomputed)

\* C2 (amended): for a non-empty span inside the file's byte range, of a
\* file whose doctest line offset is zero and whose recomputed end column
\* is below the high bit, the call returns exactly the recomputed region.
C2_InRangeSpanResolvesExactly ==
    (Done /\ NonEmptyInside /\ Shift = 0 /\ ColOf(Rel(span.hi)) < HighBit)
        => (Emitted /\ Region = Recomputed)

C2_Witness ==
    /\ Emitted /\ NonEmptyInside /\ Shift = 0
    /\ file.start_pos > 0
    /\ Region.start_line = 1 /\ Region.start_col = 1
    /\ Region.end_line = 2 /\ Region.end_col = 2

\* ---------------------------------------------------------------- C3
\* File-relative offset p of an empty span [p, p).
P == Rel(span.lo)
FollowedByOpen == span.lo = span.hi /\ ByteIs(P, "{")
PrecededByClose == span.lo = span.hi /\ P > 0 /\ ByteIs(P - 1, "}")

\* Both endpoints of the widened span are resolved, to one line, one
\* column apart.
OneByteWide ==
    /\ IsSome(start) /\ IsSome(end)
    /\ Unwrap(end)[1] = Unwrap(start)[1]
    /\ Unwrap(end)[2] = Unwrap(start)[2] + 1

\* The widened one-byte rectangle passes validation: its adjusted line is
\* not 0 and its end column is below the high bit.
OneByteAccepted ==
    /\ Shifted(Unwrap(start)[1]) # 0
    /\ Unwrap(end)[2] < HighBit

\* C3 as stated: an empty span followed by "{" always yields a region, one
\* column wide.
C3_Original ==
    (Done /\ FollowedByOpen)
        => (Emitted /\ Region.end_col = Region.start_col + 1)

\* C3 (amended): an empty span [p, p) followed by "{" is widened to
\* [p, p+1), which resolves to one line with the end column one greater
\* than the start column; a region (with exactly these columns) is
\* returned if and only if that rectangle passes validation.
C3_OpenBraceOneByteRegion ==
    (Done /\ FollowedByOpen) =>
        /\ nonempty = Some([lo |-> span.lo, hi |-> span.hi + 1])
        /\ OneByteWide
        /\ IsSome(result) <=> OneByteAccepted
        /\ IsSome(result) =>
              /\ Region.start_col = Unwrap(start)[2]
              /\ Region.end_col = Region.start_col + 1
              /\ Region.end_line = Region.start_line

C3_Witness ==
    /\ Emitted /\ FollowedByOpen /\ P > 0
    /\ Region.end_col = Region.start_col + 1

\* ---------------------------------------------------------------- C4
\* C4 as stated: an empty span not at offset 0 and preceded by "}" always
\* yields a region, one column wide.
C4_Original ==
    (Done /\ PrecededByClose)
        => (Emitted /\ Region.start_col = Region.end_col - 1)

\* C4 (amended): an empty span [p, p), p > 0, preceded by "}" is widened
\* by one byte (backward to [p-1, p), or forward when "{" follows), which
\* resolves to one line with the start column one less than the end
\* column; a region (with exactly these columns) is returned if and only
\* if that rectangle passes validation.
C4_CloseBraceOneByteRegion ==
    (Done /\ PrecededByClose) =>
        /\ nonempty = IF ByteIs(P, "{")
                      THEN Some([lo |-> span.lo, hi |-> span.hi + 1])
                      ELSE Some([lo |-> span.lo - 1, hi |-> span.hi])
        /\ OneByteWide
        /\ IsSome(result) <=> OneByteAccepted
        /\ IsSome(result) =>
              /\ Region.end_col = Unwrap(end)[2]
              /\ Region.start_col = Region.end_col - 1
              /\ Region.end_line = Region.start_line

C4_Witness ==
    /\ Emitted /\ PrecededByClose /\ ~ByteIs(P, "{")
    /\ Region.start_col = Region.end_col - 1

\* ---------------------------------------------------------------- C5
\* C5: an empty span with neither a following "{" nor (away from offset 0)
\* a preceding "}" yields nothing, and no stage after the expansion runs.
C5_NoAdjacencyYieldsNothing ==
    (Done /\ span.lo = span.hi /\ ~FollowedByOpen /\ ~PrecededByClose) =>
        /\ pc = "returned"
        /\ result = None
        /\ trace = <<"ensure_non_empty_span">>
        /\ start = None /\ end = None /\ ~diagnostic

C5_Witness ==
    /\ Done /\ span.lo = span.hi /\ ~FollowedByOpen /\ ~PrecededByClose
    /\ P > 0 /\ ByteIs(P, "}") /\ ByteIs(P - 1, "{")
    /\ result = None

\* ---------------------------------------------------------------- C6
\* C6: the call halts exactly when a rectangle reaches validation, breaks
\* a structural invariant and debug assertions are enabled; without debug
\* assertions it never halts and such a rectangle is dropped after the
\* diagnostic; a failed expansion or resolution returns nothing, silently.
C6_HaltsOnlyOnDebugAssertion ==
    /\ pc = "panicked" <=> (Checked /\ ~Valid(Handed) /\ debug_assertions)
    /\ ~debug_assertions => pc # "panicked"
    /\ (Checked /\ ~Valid(Handed)) => (result = None /\ diagnostic)
    /\ (Checked /\ Valid(Handed)) =>
          (pc = "returned" /\ result = Some(Handed) /\ ~diagnostic)
    /\ (Done /\ ~Checked) => (pc = "returned" /\ result = None /\ ~diagnostic)
    /\ ~Checked => ~diagnostic

\* Production build: an invalid rectangle is dropped with a diagnostic.
C6_Witness ==
    /\ ~debug_assertions /\ Checked /\ ~Valid(Handed)
    /\ pc = "returned" /\ result = None /\ diagnostic

\* Debug build: the same rectangle halts the call.
C6_HaltWitness == debug_assertions /\ pc = "panicked" /\ ~Valid(Handed)

\* ---------------------------------------------------------------- C7
Expanded == Unwrap(nonempty)
InsideFile(sp) ==
    file.start_pos <= sp.lo /\ sp.hi <= file.start_pos + FileLen

\* C7: ensure_non_empty_span returns a non-empty span unchanged; for an
\* empty [p, p) it returns [p, p+1) when the byte at p is "{" (checked
\* first), else [p-1, p) when p > 0 and the byte at p-1 is "}", else it
\* fails.  A returned span is non-empty, differs from the argument by at
\* most one byte at one end, and a widened span lies inside the file.
C7_EnsureNonEmptySpanContract ==
    Ran("ensure_non_empty_span") =>
        /\ pc # "panicked" \/ Checked
        /\ span.lo < span.hi => nonempty = Some(span)
        /\ FollowedByOpen =>
              nonempty = Some([lo |-> span.lo, hi |-> span.hi + 1])
        /\ (PrecededByClose /\ ~FollowedByOpen) =>
              nonempty = Some([lo |-> span.lo - 1, hi |-> span.hi])
        /\ (span.lo = span.hi /\ ~FollowedByOpen /\ ~PrecededByClose) =>
              nonempty = None
        /\ IsSome(nonempty) =>
              /\ Expanded.lo < Expanded.hi
              /\ \/ Expanded = span
                 \/ Expanded.lo = span.lo /\ Expanded.hi = span.hi + 1
                 \/ Expanded.lo = span.lo - 1 /\ Expanded.hi = span.hi
              /\ Expanded # span => InsideFile(Expanded)
              /\ InsideFile(span) => InsideFile(Expanded)

\* Both braces are adjacent and the forward one wins.
C7_Witness ==
    /\ FollowedByOpen /\ PrecededByClose
    /\ nonempty = Some([lo |-> span.lo, hi |-> span.hi + 1])

\* ---------------------------------------------------------------- C8
\* C8: resolving a position fails if and only if no line start of the
\* table is <= the file-relative position; a failure on either endpoint
\* ends the call with nothing, the lower bound being resolved first and
\* neither the doctest adjustment nor validation being run.
C8_ResolutionFailsIffNoLine ==
    /\ Ran("resolve_lo") => (start = None <=> ~HasLine(Rel(Expanded.lo)))
    /\ Ran("resolve_hi") => (end = None <=> ~HasLine(Rel(Expanded.hi)))
    /\ (Ran("resolve_lo") /\ start = None) =>
          /\ pc = "returned" /\ result = None
          /\ trace = <<"ensure_non_empty_span", "resolve_lo">>
    /\ (Ran("resolve_hi") /\ end = None) =>
          /\ pc = "returned" /\ result = None
          /\ trace = <<"ensure_non_empty_span", "resolve_lo", "resolve_hi">>
    /\ Ran("resolve_hi") => (Len(trace) >= 3 /\ trace[2] = "resolve_lo"
                             /\ trace[3] = "resolve_hi" /\ IsSome(start))
    /\ (Ran("doctest_offset") \/ Checked) => (IsSome(start) /\ IsSome(end))

C8_Witness ==
    /\ Ran("resolve_lo") /\ start = None /\ ~HasLine(Rel(Expanded.lo))
    /\ pc = "returned" /\ result = None

\* ---------------------------------------------------------------- C9
\* C9: an emitted region's columns are the byte columns of the widened
\* span's bounds, untouched by the doctest adjustment; its lines are the
\* bounds' lines each shifted by the file's doctest offset, and are the
\* resolver's lines when the offset is the identity.
C9_DoctestAdjustsLinesOnly ==
    Emitted =>
        /\ Region.start_col = ColOf(Rel(Expanded.lo)) % U32
        /\ Region.end_col = ColOf(Rel(Expanded.hi)) % U32
        /\ Region.start_line = Shifted(LineOf(Rel(Expanded.lo)))
        /\ Region.end_line = Shifted(LineOf(Rel(Expanded.hi)))
        /\ Shift = 0 =>
              /\ Region.start_line = LineOf(Rel(Expanded.lo))
              /\ Region.end_line = LineOf(Rel(Expanded.hi))

C9_Witness ==
    /\ Emitted /\ Shift > 0
    /\ Region.start_line = 1 + Shift
    /\ Region.end_line = 2 + Shift
    /\ Region.start_col > Region.end_col

====
